---- MODULE Spec2Model ----
(***************************************************************************)
(* Model of react/src/topk/Topk.tsx: the Topk widget (selection state,     *)
(* the colsToShow effect, the render pipeline getSelectedActivations ->    *)
(* topk / bottomk -> token lookup) and the RangeSelector option list.      *)
(*                                                                         *)
(* Arrays and tensors are functions over 0..n-1, so that indices are the   *)
(* 0-based indices of the source.  Strings are sequences of one-character  *)
(* strings, so that number formatting and range parsing are computed.      *)
(* An operation that throws returns Err; a render that throws unmounts     *)
(* the widget (view.ok = FALSE) and no handler runs afterwards.            *)
(***************************************************************************)
EXTENDS Integers, Sequences, FiniteSets, TLC

\* ---------------------------------------------------------------- bounds
\* Widget specification (Spec): dimensions of the activations prop.
MaxSamples == 2
MaxTokens == 6
MaxLayers == 2
MaxNeurons == 6
\* Slice / top-k specification (SpecTopk): dimensions of the activations prop.
FnMaxSamples == 2
FnMaxTokens == 3
FnMaxLayers == 2
FnMaxNeurons == 2
\* RangeSelector specification (SpecRange): props of the selector.
RsMaxBelowZero == 3
RsMaxLargest == 11
RsMaxNumVals == 5

\* ------------------------------------------------------ program constants
\* useState<number>(5) for colsToShow and for k; the k selector offers 1..20.
InitialColsToShow == 5
InitialK == 5
LargestK == 20

\* Activation values the inputs are drawn from (negative, zero, positive).
Vals == {-1, 0, 1}

\* ------------------------------------------------------------ array basics
Size(a) == Cardinality(DOMAIN a)

Err == [ok |-> FALSE]

Ok(v) == [ok |-> TRUE, val |-> v]

\* [...Array(n).keys()] : the array 0, 1, ..., n-1.
ArrayKeys(n) == [i \in 0..(n - 1) |-> i]

\* ------------------------------------------------------------ tensor ops
\* tensor.slice(begin, size) on a rank-3 tensor; a size of -1 takes the rest
\* of the axis; a slice reaching outside the tensor throws.
Slice3(A, begin, size) ==
    LET shape == <<Size(A), Size(A[0]), Size(A[0][0])>>
        sz == [d \in 1..3 |-> IF size[d] = -1 THEN shape[d] - begin[d] ELSE size[d]]
    IN  IF \E d \in 1..3 : begin[d] < 0 \/ sz[d] < 0 \/ begin[d] + sz[d] > shape[d]
        THEN Err
        ELSE Ok([t \in 0..(sz[1] - 1) |->
                  [l \in 0..(sz[2] - 1) |->
                    [n \in 0..(sz[3] - 1) |->
                       A[begin[1] + t][begin[2] + l][begin[3] + n]]]])

\* .squeeze([1]) : drop the (size one) layer axis.
Squeeze1(X) == [t \in DOMAIN X |-> X[t][0]]

\* .transpose() of a rank-2 tensor.
Transpose(M) ==
    IF Size(M) = 0 THEN M
    ELSE [c \in DOMAIN M[0] |-> [r \in DOMAIN M |-> M[r][c]]]

\* .mul(-1)
MulMinusOne(M) == [r \in DOMAIN M |-> [c \in DOMAIN M[r] |-> (-1) * M[r][c]]]

\* reverse(x, -1) : reverse every row along the last axis.
ReverseLast(M) ==
    [r \in DOMAIN M |-> [c \in DOMAIN M[r] |-> M[r][Size(M[r]) - 1 - c]]]

\* Mutant of getSelectedActivations: the slice is one neuron short.
getSelectedActivations_ShortSlice(activations, layerNumber, neuronStartNumber, neuronEndNumber) ==
    LET s == Slice3(activations,
                    <<0, layerNumber, neuronStartNumber>>,
                    <<-1, 1, neuronEndNumber - neuronStartNumber>>)
    IN  IF ~s.ok THEN Err ELSE Ok(Transpose(Squeeze1(s.val)))

getSelectedActivations(activations, layerNumber, neuronStartNumber, neuronEndNumber) ==
    LET s == Slice3(activations,
                    <<0, layerNumber, neuronStartNumber>>,
                    <<-1, 1, neuronEndNumber - neuronStartNumber + 1>>)
    IN  IF ~s.ok THEN Err ELSE Ok(Transpose(Squeeze1(s.val)))

\* ------------------------------------------------------------------ topk
\* The order tfjs's topk sorts one row in: larger value first, and among
\* equal values the lower index first.  The first `count` indices of `rest`
\* in that order, as a sequence.
RECURSIVE TopkOrder(_, _, _)
TopkOrder(row, rest, count) ==
    IF count = 0 \/ rest = {} THEN <<>>
    ELSE LET best == CHOOSE i \in rest :
                       \A j \in rest : row[i] > row[j] \/ (row[i] = row[j] /\ i <= j)
         IN  <<best>> \o TopkOrder(row, rest \ {best}, count - 1)

\* Mutant of tfTopk: the k largest values, smallest first.
tfTopk_Ascending(x, kk) ==
    IF kk < 0 \/ (Size(x) > 0 /\ kk > Size(x[0])) THEN Err
    ELSE LET order == [r \in DOMAIN x |-> TopkOrder(x[r], DOMAIN x[r], kk)]
         IN  Ok([values  |-> [r \in DOMAIN x |-> [c \in 0..(kk - 1) |-> x[r][order[r][kk - c]]]],
                 indices |-> [r \in DOMAIN x |-> [c \in 0..(kk - 1) |-> order[r][kk - c]]]])

\* Mutant of tfTopk: the first k entries of each row, unselected.
tfTopk_FirstK(x, kk) ==
    IF kk < 0 \/ (Size(x) > 0 /\ kk > Size(x[0])) THEN Err
    ELSE Ok([values  |-> [r \in DOMAIN x |-> [c \in 0..(kk - 1) |-> x[r][c]]],
             indices |-> [r \in DOMAIN x |-> [c \in 0..(kk - 1) |-> c]]])

\* tfTopk(x, k, true): per row the k largest values, sorted descending, and
\* their positions in the row; throws when k exceeds the row length.
tfTopk(x, kk) ==
    IF kk < 0 \/ (Size(x) > 0 /\ kk > Size(x[0])) THEN Err
    ELSE LET order == [r \in DOMAIN x |-> TopkOrder(x[r], DOMAIN x[r], kk)]
         IN  Ok([values  |-> [r \in DOMAIN x |-> [c \in 0..(kk - 1) |-> x[r][order[r][c + 1]]]],
                 indices |-> [r \in DOMAIN x |-> [c \in 0..(kk - 1) |-> order[r][c + 1]]]])

\* ---------------------------------------------------------------- strings
DigitChars == <<"0", "1", "2", "3", "4", "5", "6", "7", "8", "9">>

RECURSIVE DigitsOf(_)
DigitsOf(n) ==
    IF n < 10 THEN <<DigitChars[n + 1]>>
    ELSE DigitsOf(n \div 10) \o <<DigitChars[(n % 10) + 1]>>

\* `${n}` : the decimal text of an integer.
NumToStr(n) == IF n < 0 THEN <<"-">> \o DigitsOf(-n) ELSE DigitsOf(n)

\* ---------------------------------------------------------- RangeSelector
\* Mutant of RangeOptions: the end of a range is one past the last number.
RECURSIVE RangeOptions_EndPastLast(_, _, _)
RangeOptions_EndPastLast(i, largestNumber, numValsInRange) ==
    IF i > largestNumber THEN <<>>
    ELSE LET start == i
             end == IF i + numValsInRange <= largestNumber
                    THEN i + numValsInRange ELSE largestNumber
         IN  <<IF start = end THEN NumToStr(start)
               ELSE NumToStr(start) \o <<"-">> \o NumToStr(end)>>
             \o RangeOptions_EndPastLast(i + numValsInRange, largestNumber, numValsInRange)

\* The loop building `ranges`, from loop variable i on.
RECURSIVE RangeOptionsFrom(_, _, _)
RangeOptionsFrom(i, largestNumber, numValsInRange) ==
    IF i > largestNumber THEN <<>>
    ELSE LET start == i
             end == IF i + numValsInRange - 1 <= largestNumber
                    THEN i + numValsInRange - 1 ELSE largestNumber
         IN  <<IF start = end THEN NumToStr(start)
               ELSE NumToStr(start) \o <<"-">> \o NumToStr(end)>>
             \o RangeOptionsFrom(i + numValsInRange, largestNumber, numValsInRange)

\* The option list of RangeSelector.
RangeOptions(smallestNumber, largestNumber, numValsInRange) ==
    RangeOptionsFrom(smallestNumber, largestNumber, numValsInRange)

\* ------------------------------------------ utils/rangeStrArrConversion
\* rangeArrToString: a one-number range is the number, a longer one is
\* "first-last".
rangeArrToString(rangeArr) ==
    IF Size(rangeArr) < 2 THEN NumToStr(rangeArr[0])
    ELSE NumToStr(rangeArr[0]) \o <<"-">> \o NumToStr(rangeArr[Size(rangeArr) - 1])

\* str.split("-") : the pieces of str between the dashes.
RECURSIVE SplitDash(_, _)
SplitDash(str, piece) ==
    IF str = <<>> THEN <<piece>>
    ELSE IF Head(str) = "-" THEN <<piece>> \o SplitDash(Tail(str), <<>>)
    ELSE SplitDash(Tail(str), Append(piece, Head(str)))

DigitValue(ch) == (CHOOSE d \in 1..10 : DigitChars[d] = ch) - 1

\* parseInt(str, 10) of a run of decimal digits.
RECURSIVE ParseDigits(_, _)
ParseDigits(str, acc) ==
    IF str = <<>> THEN acc
    ELSE ParseDigits(Tail(str), 10 * acc + DigitValue(Head(str)))

\* rangeStringToArr: "7" is [7]; "2-5" is [2, 3, 4, 5].
rangeStringToArr(rangeStr) ==
    LET pieces == SplitDash(rangeStr, <<>>)
    IN  IF Len(pieces) = 1 THEN [i \in 0..0 |-> ParseDigits(pieces[1], 0)]
        ELSE LET start == ParseDigits(pieces[1], 0)
                 end == ParseDigits(pieces[Len(pieces)], 0)
             IN  [i \in 0..(end - start) |-> i + start]

\* ------------------------------------------------------------ the render
\* topkValsRaw.transpose() and topkIdxsRaw.transpose()
TopkVals(raw) == Transpose(raw.values)

TopkIdxs(raw) == Transpose(raw.indices)

\* Mutant of BottomkVals: the negation is undone but the order is not reversed.
BottomkVals_NoReverse(raw) == Transpose(MulMinusOne(raw.values))

\* reverse(bottomkValsRaw.mul(-1), -1).transpose()
BottomkVals(raw) == Transpose(ReverseLast(MulMinusOne(raw.values)))

\* Mutant of BottomkIdxs: the indices are not reversed with the values.
BottomkIdxs_NoReverse(raw) == Transpose(raw.indices)

\* reverse(bottomkIdxsRaw, -1).transpose()
BottomkIdxs(raw) == Transpose(ReverseLast(raw.indices))

\* Mutant of TokensAt: the token is looked up by rank, not by token index.
TokensAt_ByRank(idxs, currentTokens) ==
    [r \in DOMAIN idxs |-> [n \in DOMAIN idxs[r] |-> currentTokens[r]]]

\* idxs.map((outerArr) => outerArr.map((token_idx) => currentTokens[token_idx]))
TokensAt(idxs, currentTokens) ==
    [r \in DOMAIN idxs |-> [n \in DOMAIN idxs[r] |-> currentTokens[idxs[r][n]]]]

\* What one run of the Topk function body computes and shows, or a throw.
Render(toks, acts, sample, layer, neurons, kk, cols) ==
    LET currentTokens == toks[sample]
        numberOfNeurons == Size(acts[0][0][0])
        cur == getSelectedActivations(acts[sample], layer,
                                      neurons[0], neurons[Size(neurons) - 1])
    IN  IF ~cur.ok THEN [status |-> "error"]
        ELSE LET top == tfTopk(cur.val, kk)
                 bot == tfTopk(MulMinusOne(cur.val), kk)
             IN  IF ~top.ok \/ ~bot.ok THEN [status |-> "error"]
                 ELSE [status |-> "ok",
                       currentActivations |-> cur.val,
                       topkVals |-> TopkVals(top.val),
                       topkIdxs |-> TopkIdxs(top.val),
                       bottomkVals |-> BottomkVals(bot.val),
                       bottomkIdxs |-> BottomkIdxs(bot.val),
                       topkTokens |-> TokensAt(TopkIdxs(top.val), currentTokens),
                       bottomkTokens |-> TokensAt(BottomkIdxs(bot.val), currentTokens),
                       ranges |-> RangeOptions(0, numberOfNeurons - 1, cols),
                       currentRange |-> rangeArrToString(neurons)]

\* ------------------------------------------------------------------ state
VARIABLES
    tokens,          \* prop: [samples x tokens] token strings
    activations,     \* prop: [samples x tokens x layers x neurons]
    sampleNumber,    \* useState
    layerNumber,     \* useState
    colsToShow,      \* useState
    k,               \* useState
    neuronNumbers,   \* useState: the selected neuron range, as an array
    pendingEffect,   \* "none", or why the colsToShow effect is due: "mount", "update"
    view,            \* what the last render showed: status "none", "ok" or "error"
    selectorProps,   \* props of a RangeSelector rendered on its own
    selectorRanges   \* its option list, once rendered

vars == <<tokens, activations, sampleNumber, layerNumber, colsToShow, k,
          neuronNumbers, pendingEffect, view, selectorProps, selectorRanges>>

numberOfSamples == Size(activations)

tokenCount == Size(activations[0])

numberOfLayers == Size(activations[0][0])

numberOfNeurons == Size(activations[0][0][0])

\* ------------------------------------------------------------------ inputs
\* The token strings: token t of sample s is the text "s.t".
TokenList(S, T) ==
    [s \in 0..(S - 1) |-> [t \in 0..(T - 1) |-> NumToStr(s) \o <<".">> \o NumToStr(t)]]

\* A [samples x tokens x layers x neurons] tensor laid out from three
\* per-token rows, so that neighbouring samples, layers and neurons differ
\* and swapping two axes changes the tensor.
TensorOf(S, T, L, N, rows) ==
    [s \in 0..(S - 1) |-> [t \in 0..(T - 1) |-> [l \in 0..(L - 1) |->
        [n \in 0..(N - 1) |-> rows[(s + l + 2 * n) % 3][t]]]]]

\* Three rows from one: the row, its negation, and the row read backwards.
RowsOf(a) ==
    [i \in 0..2 |-> IF i = 0 THEN a
                    ELSE IF i = 1 THEN [t \in DOMAIN a |-> (-1) * a[t]]
                    ELSE [t \in DOMAIN a |-> a[Size(a) - 1 - t]]]

\* The input tensors of the slice / top-k specification: every row of
\* activations over the tokens, drawn from Vals, laid out as above.
InputTensors(S, T, L, N) ==
    { TensorOf(S, T, L, N, RowsOf(a)) : a \in [0..(T - 1) -> Vals] }

\* The input tensor of the widget specification, one per shape.
WidgetTensor(S, T, L, N) ==
    TensorOf(S, T, L, N, RowsOf([t \in 0..(T - 1) |-> (t % 3) - 1]))

\* Every contiguous ascending range of neuron numbers within 0..N-1.
NeuronRanges(N) ==
    { [i \in 0..(e - b) |-> b + i] : b \in 0..(N - 1), e \in 0..(N - 1) } \ { <<>> }

NoSelector == [smallestNumber |-> 0, largestNumber |-> 0, numValsInRange |-> 1]

\* --------------------------------------------------------- the Topk widget
\* The neuron range the useState initialiser and the effect compute.
FirstNeurons(samples, cols) == IF samples > 1 THEN ArrayKeys(cols) ELSE ArrayKeys(1)

\* Mount: the useState initial values and the first render.
Init ==
    \E S \in 1..MaxSamples, T \in 1..MaxTokens, L \in 1..MaxLayers, N \in 1..MaxNeurons :
        /\ tokens = TokenList(S, T)
        /\ activations = WidgetTensor(S, T, L, N)
        /\ sampleNumber = 0
        /\ layerNumber = 0
        /\ colsToShow = InitialColsToShow
        /\ k = InitialK
        /\ neuronNumbers = FirstNeurons(S, InitialColsToShow)
        /\ pendingEffect = "mount"
        /\ view = Render(tokens, activations, sampleNumber, layerNumber,
                         neuronNumbers, k, colsToShow)
        /\ selectorProps = NoSelector
        /\ selectorRanges = <<>>

\* The widget is mounted and idle: the last render did not throw and no
\* effect is waiting (React runs a pending effect before the next event).
Idle == view.status = "ok" /\ pendingEffect = "none"

fixed == <<tokens, activations, selectorProps, selectorRanges>>

\* The sample selector's onChange.
SetSampleNumber ==
    /\ Idle
    /\ \E v \in 0..(numberOfSamples - 1) :
        /\ sampleNumber' = v
        /\ view' = Render(tokens, activations, v, layerNumber, neuronNumbers, k, colsToShow)
    /\ UNCHANGED <<layerNumber, colsToShow, k, neuronNumbers, pendingEffect, fixed>>

\* The layer selector's onChange.
SetLayerNumber ==
    /\ Idle
    /\ \E v \in 0..(numberOfLayers - 1) :
        /\ layerNumber' = v
        /\ view' = Render(tokens, activations, sampleNumber, v, neuronNumbers, k, colsToShow)
    /\ UNCHANGED <<sampleNumber, colsToShow, k, neuronNumbers, pendingEffect, fixed>>

\* The neuron RangeSelector's onChange: one of the options it shows.
SetNeuronNumbers ==
    /\ Idle
    /\ \E i \in 1..Len(view.ranges) :
        /\ neuronNumbers' = rangeStringToArr(view.ranges[i])
        /\ view' = Render(tokens, activations, sampleNumber, layerNumber,
                          neuronNumbers', k, colsToShow)
    /\ UNCHANGED <<sampleNumber, layerNumber, colsToShow, k, pendingEffect, fixed>>

\* The "to show" selector's onChange; a new value makes the effect due.
SetColsToShow ==
    /\ Idle
    /\ \E v \in 1..numberOfNeurons :
        /\ colsToShow' = v
        /\ pendingEffect' = IF v # colsToShow THEN "update" ELSE pendingEffect
        /\ view' = Render(tokens, activations, sampleNumber, layerNumber,
                          neuronNumbers, k, v)
    /\ UNCHANGED <<sampleNumber, layerNumber, k, neuronNumbers, fixed>>

\* The k selector's onChange.
SetK ==
    /\ Idle
    /\ \E v \in 1..LargestK :
        /\ k' = v
        /\ view' = Render(tokens, activations, sampleNumber, layerNumber,
                          neuronNumbers, v, colsToShow)
    /\ UNCHANGED <<sampleNumber, layerNumber, colsToShow, neuronNumbers, pendingEffect, fixed>>

\* useEffect(..., [colsToShow, numberOfSamples]): after the mount and after
\* a render with a new colsToShow, reset the neuron range and render again.
ColsToShowEffect ==
    /\ view.status = "ok"
    /\ pendingEffect # "none"
    /\ neuronNumbers' = FirstNeurons(numberOfSamples, colsToShow)
    /\ pendingEffect' = "none"
    /\ view' = Render(tokens, activations, sampleNumber, layerNumber,
                      neuronNumbers', k, colsToShow)
    /\ UNCHANGED <<sampleNumber, layerNumber, colsToShow, k, fixed>>

Next ==
    \/ SetSampleNumber
    \/ SetLayerNumber
    \/ SetNeuronNumbers
    \/ SetColsToShow
    \/ SetK
    \/ ColsToShowEffect

Spec == Init /\ [][Next]_vars

\* --------------------------------------- slice / top-k on drawn selections
\* Any props in the input family and any valid selection, not yet rendered.
InitTopk ==
    \E S \in 1..FnMaxSamples, T \in 1..FnMaxTokens, L \in 1..FnMaxLayers, N \in 1..FnMaxNeurons :
        /\ tokens = TokenList(S, T)
        /\ activations \in InputTensors(S, T, L, N)
        /\ sampleNumber \in 0..(S - 1)
        /\ layerNumber \in 0..(L - 1)
        /\ neuronNumbers \in NeuronRanges(N)
        /\ colsToShow = Size(neuronNumbers)
        /\ k \in 1..T
        /\ pendingEffect = "none"
        /\ view = [status |-> "none"]
        /\ selectorProps = NoSelector
        /\ selectorRanges = <<>>

\* One run of the Topk function body on the drawn selection.
RenderSelection ==
    /\ view.status = "none"
    /\ view' = Render(tokens, activations, sampleNumber, layerNumber,
                      neuronNumbers, k, colsToShow)
    /\ UNCHANGED <<sampleNumber, layerNumber, colsToShow, k, neuronNumbers,
                   pendingEffect, fixed>>

NextTopk == RenderSelection

SpecTopk == InitTopk /\ [][NextTopk]_vars

\* ------------------------------------------ RangeSelector on drawn props
InitRange ==
    /\ selectorProps \in
         { [smallestNumber |-> lo, largestNumber |-> hi, numValsInRange |-> num] :
             lo \in (-RsMaxBelowZero)..RsMaxLargest,
             hi \in (-RsMaxBelowZero)..RsMaxLargest,
             num \in 1..RsMaxNumVals }
    /\ selectorProps.smallestNumber <= selectorProps.largestNumber
    /\ selectorRanges = <<>>
    /\ tokens = TokenList(1, 1)
    /\ activations = WidgetTensor(1, 1, 1, 1)
    /\ sampleNumber = 0
    /\ layerNumber = 0
    /\ colsToShow = 1
    /\ k = 1
    /\ neuronNumbers = ArrayKeys(1)
    /\ pendingEffect = "none"
    /\ view = [status |-> "none"]

\* The body of RangeSelector up to the option list.
RenderRangeSelector ==
    /\ selectorRanges = <<>>
    /\ selectorRanges' = RangeOptions(selectorProps.smallestNumber,
                                      selectorProps.largestNumber,
                                      selectorProps.numValsInRange)
    /\ UNCHANGED <<tokens, activations, sampleNumber, layerNumber, colsToShow, k,
                   neuronNumbers, pendingEffect, view, selectorProps>>

NextRange == RenderRangeSelector

SpecRange == InitRange /\ [][NextRange]_vars

\* ================================================================= claims
\* The selection the properties speak of.
sampleTensor == activations[sampleNumber]

rangeStart == neuronNumbers[0]

rangeEnd == neuronNumbers[Size(neuronNumbers) - 1]

rangeSize == Size(neuronNumbers)

Rendered == view.status # "none"

\* The activation of selected neuron column n at token t.
Activation(n, t) == sampleTensor[t][layerNumber][rangeStart + n]

\* How many of the positions of the array a hold the value v.
Count(a, v) == Cardinality({i \in DOMAIN a : a[i] = v})

\* Column n of a [rank x neuron] matrix, as an array over the ranks.
Column(M, n) == [r \in DOMAIN M |-> M[r][n]]

\* Row n of the selected layer: the activations of one neuron over the tokens.
NeuronRow(n) == [t \in 0..(tokenCount - 1) |-> Activation(n, t)]

\* The array d holds k of the largest values of the array x: it takes no
\* value more often than x holds it, and nothing it leaves out of x is
\* larger than something it holds.
IsKLargest(d, x) ==
    /\ \A v \in Vals \cup {x[i] : i \in DOMAIN x} \cup {d[i] : i \in DOMAIN d} :
          Count(d, v) <= Count(x, v)
    /\ \A i \in DOMAIN x : \A j \in DOMAIN d :
          Count(d, x[i]) < Count(x, x[i]) => x[i] <= d[j]

IsKSmallest(d, x) ==
    /\ \A v \in Vals \cup {x[i] : i \in DOMAIN x} \cup {d[i] : i \in DOMAIN d} :
          Count(d, v) <= Count(x, v)
    /\ \A i \in DOMAIN x : \A j \in DOMAIN d :
          Count(d, x[i]) < Count(x, x[i]) => x[i] >= d[j]

\* C1: for a sample tensor [tokens x layers x neurons], a layer and an
\* inclusive in-bounds neuron range, getSelectedActivations returns a matrix
\* of shape [(end - start + 1) x tokenCount] whose entry [n][t] is the
\* activation of neuron start + n at token t in that layer.
C1_SliceIsLayerRangeTransposed ==
    Rendered =>
        /\ view.status = "ok"
        /\ DOMAIN view.currentActivations = 0..(rangeEnd - rangeStart)
        /\ \A n \in 0..(rangeEnd - rangeStart) :
              /\ DOMAIN view.currentActivations[n] = 0..(tokenCount - 1)
              /\ \A t \in 0..(tokenCount - 1) :
                    view.currentActivations[n][t]
                        = sampleTensor[t][layerNumber][rangeStart + n]

\* A slice of two neurons of layer 1 whose rows differ, over several tokens.
C1_Witness ==
    /\ view.status = "ok"
    /\ layerNumber = 1
    /\ rangeSize = 2
    /\ tokenCount >= 2
    /\ view.currentActivations[0] # view.currentActivations[1]
    /\ sampleTensor[0][0] # sampleTensor[0][1]

\* C2: with 1 <= k <= tokenCount, the displayed top-k values of every
\* neuron column are non-increasing down the ranks.
C2_TopkValsNonIncreasing ==
    (Rendered /\ 1 <= k /\ k <= tokenCount) =>
        /\ view.status = "ok"
        /\ DOMAIN view.topkVals = 0..(k - 1)
        /\ \A r \in 0..(k - 2) : \A n \in 0..(rangeSize - 1) :
              view.topkVals[r][n] >= view.topkVals[r + 1][n]

\* Three ranks shown for a neuron whose top values strictly decrease.
C2_Witness ==
    /\ view.status = "ok"
    /\ k >= 3
    /\ \E n \in 0..(rangeSize - 1) :
          /\ view.topkVals[0][n] > view.topkVals[1][n]
          /\ view.topkVals[1][n] > view.topkVals[2][n]

\* C3: with 1 <= k <= tokenCount, the displayed bottom-k values of every
\* neuron column are non-increasing down the ranks (the lowest activation
\* in the last row).
C3_BottomkValsNonIncreasing ==
    (Rendered /\ 1 <= k /\ k <= tokenCount) =>
        /\ view.status = "ok"
        /\ DOMAIN view.bottomkVals = 0..(k - 1)
        /\ \A r \in 0..(k - 2) : \A n \in 0..(rangeSize - 1) :
              view.bottomkVals[r][n] >= view.bottomkVals[r + 1][n]

\* Two bottom ranks of a neuron, the last one negative and strictly lowest.
C3_Witness ==
    /\ view.status = "ok"
    /\ k = 2
    /\ tokenCount > k
    /\ \E n \in 0..(rangeSize - 1) :
          /\ view.bottomkVals[0][n] > view.bottomkVals[1][n]
          /\ view.bottomkVals[1][n] < 0

\* C4: with 1 <= k <= tokenCount, the token shown at rank r for neuron
\* column n is tokens[sample][topkIdxs[r][n]] in the top table and
\* tokens[sample][bottomkIdxs[r][n]] in the bottom table, and every such
\* index is a token position 0..tokenCount-1.
C4_TokenAtSelectedIndex ==
    (Rendered /\ 1 <= k /\ k <= tokenCount) =>
        /\ view.status = "ok"
        /\ \A r \in 0..(k - 1) : \A n \in 0..(rangeSize - 1) :
              /\ view.topkIdxs[r][n] \in 0..(tokenCount - 1)
              /\ view.bottomkIdxs[r][n] \in 0..(tokenCount - 1)
              /\ view.topkTokens[r][n] = tokens[sampleNumber][view.topkIdxs[r][n]]
              /\ view.bottomkTokens[r][n] = tokens[sampleNumber][view.bottomkIdxs[r][n]]

\* The second sample is selected and the top token of a neuron is not token 0.
C4_Witness ==
    /\ view.status = "ok"
    /\ sampleNumber = 1
    /\ k >= 2
    /\ \E n \in 0..(rangeSize - 1) :
          /\ view.topkIdxs[0][n] = 2
          /\ view.topkTokens[0][n] = <<"1", ".", "2">>
          /\ view.bottomkTokens[k - 1][n] = <<"1", ".", "1">>

\* C6: with 1 <= k <= tokenCount, for every neuron column the k displayed
\* top values are, as a multiset, the k largest activations of that neuron
\* over the tokens of the selected sample and layer, and the k displayed
\* bottom values are the k smallest.
C6_TopAndBottomAreExtremes ==
    (Rendered /\ 1 <= k /\ k <= tokenCount) =>
        /\ view.status = "ok"
        /\ \A n \in 0..(rangeSize - 1) :
              /\ DOMAIN Column(view.topkVals, n) = 0..(k - 1)
              /\ DOMAIN Column(view.bottomkVals, n) = 0..(k - 1)
              /\ IsKLargest(Column(view.topkVals, n), NeuronRow(n))
              /\ IsKSmallest(Column(view.bottomkVals, n), NeuronRow(n))

\* A neuron with a tie at the cut: k = 2 of three tokens 1, -1, -1, so the
\* top values are 1, -1 and the bottom values are -1, -1.
C6_Witness ==
    /\ view.status = "ok"
    /\ k = 2
    /\ tokenCount = 3
    /\ \E n \in 0..(rangeSize - 1) :
          /\ Column(view.topkVals, n) = [r \in 0..1 |-> IF r = 0 THEN 1 ELSE -1]
          /\ Column(view.bottomkVals, n) = [r \in 0..1 |-> -1]

\* C7: for smallestNumber <= largestNumber and numValsInRange >= 1 the
\* option list of RangeSelector splits smallestNumber..largestNumber into
\* consecutive ascending ranges of numValsInRange numbers each, the last
\* one holding the remainder; a range of several numbers is written
\* "start-end", a range of one number is the number alone (0, 4, 2 gives
\* "0-1", "2-3", "4").
C7_OptionsPartitionTheInterval ==
    selectorRanges # <<>> =>
        LET lo == selectorProps.smallestNumber
            hi == selectorProps.largestNumber
            num == selectorProps.numValsInRange
            cnt == ((hi - lo + 1) + (num - 1)) \div num
            first(i) == lo + (i - 1) * num
            last(i) == IF i < cnt THEN first(i) + num - 1 ELSE hi
        IN  /\ Len(selectorRanges) = cnt
            /\ \A i \in 1..cnt :
                  /\ first(i) <= last(i)
                  /\ last(i) - first(i) + 1 <= num
                  /\ selectorRanges[i] =
                        IF first(i) = last(i) THEN NumToStr(first(i))
                        ELSE NumToStr(first(i)) \o <<"-">> \o NumToStr(last(i))
            /\ (lo = 0 /\ hi = 4 /\ num = 2) =>
                  selectorRanges = << <<"0", "-", "1">>, <<"2", "-", "3">>, <<"4">> >>
            /\ (lo = 8 /\ hi = 11 /\ num = 3) =>
                  selectorRanges = << <<"8", "-", "1", "0">>, <<"1", "1">> >>

\* An option list of full ranges followed by a one-number remainder.
C7_Witness ==
    /\ Len(selectorRanges) = 3
    /\ selectorProps.numValsInRange = 2
    /\ selectorRanges[1] = <<"0", "-", "1">>
    /\ selectorRanges[3] = <<"4">>

\* C8: with 1 <= k <= tokenCount, every displayed value is the activation of
\* its neuron (rangeStart + n) at the token index displayed with it, in the
\* top and in the bottom table, and the k indices of one column are
\* pairwise distinct.
C8_ValuesPairedWithIndices ==
    (Rendered /\ 1 <= k /\ k <= tokenCount) =>
        /\ view.status = "ok"
        /\ \A n \in 0..(rangeSize - 1) :
              /\ \A r \in 0..(k - 1) :
                    /\ view.topkVals[r][n] = Activation(n, view.topkIdxs[r][n])
                    /\ view.bottomkVals[r][n] = Activation(n, view.bottomkIdxs[r][n])
              /\ \A r1, r2 \in 0..(k - 1) :
                    r1 # r2 => /\ view.topkIdxs[r1][n] # view.topkIdxs[r2][n]
                               /\ view.bottomkIdxs[r1][n] # view.bottomkIdxs[r2][n]

\* A range that does not start at neuron 0, with a tie among the bottom
\* values and distinct values among the ranks of the same column.
C8_Witness ==
    /\ view.status = "ok"
    /\ rangeStart = 1
    /\ k = 3
    /\ view.bottomkVals[1][0] = view.bottomkVals[2][0]
    /\ view.bottomkVals[0][0] > view.bottomkVals[1][0]
    /\ view.bottomkIdxs[2][0] = 0

\* C5: whenever colsToShow changes to a value c (any number of samples, at
\* least c neurons), once the change is processed the neuron range is the
\* first c neurons 0..c-1.
C5_ColsChangeSelectsFirstNeurons ==
    [][(pendingEffect = "update" /\ pendingEffect' = "none"
          /\ numberOfNeurons >= colsToShow)
        => neuronNumbers' = ArrayKeys(colsToShow')]_vars

\* C9: in every reachable state of the widget the neuron range is a
\* non-empty contiguous ascending run of indices within
\* 0..numberOfNeurons-1.
C9_NeuronRangeInBounds ==
    /\ rangeSize >= 1
    /\ DOMAIN neuronNumbers = 0..(rangeSize - 1)
    /\ \A i \in 0..(rangeSize - 1) : neuronNumbers[i] = rangeStart + i
    /\ 0 <= rangeStart
    /\ rangeEnd <= numberOfNeurons - 1

\* C10: in every settled state (the widget is shown and no effect is
\* pending) the neuron range is one of the blocks of the partition of
\* 0..numberOfNeurons-1 into runs of colsToShow numbers, and the value of
\* the neuron select is one of its options.
C10_SelectedRangeIsAnOption ==
    (view.status = "ok" /\ pendingEffect = "none") =>
        /\ \E j \in 0..(numberOfNeurons - 1) :
              LET first == j * colsToShow
                  last == IF first + colsToShow - 1 <= numberOfNeurons - 1
                          THEN first + colsToShow - 1 ELSE numberOfNeurons - 1
              IN  /\ first <= numberOfNeurons - 1
                  /\ neuronNumbers = [i \in 0..(last - first) |-> first + i]
        /\ \E i \in 1..Len(view.ranges) : view.ranges[i] = view.currentRange

====
